---- MODULE Spec2Model ----
(***************************************************************************)
(* Model of the chess position core of kirillbobyrev/pabi: the algebraic   *)
(* notation helpers (notation.cc), the piece/symbol tables, PieceSet,      *)
(* PieceCentricBoard and Game (board.h, board.cc, game.h).                 *)
(*                                                                         *)
(* Characters are their ASCII codes, texts are sequences of characters.    *)
(* ABSL_ASSERT is compiled in or out by the build (NDEBUG); the build is   *)
(* the variable `assertions`.                                              *)
(***************************************************************************)
EXTENDS Integers, Sequences, FiniteSets, TLC

VARIABLES
    assertions,  \* TRUE: ABSL_ASSERT is checked (NDEBUG not defined)
    aborted,     \* TRUE once an assertion failed and the process aborted
    call,        \* the last notation call: function name and argument
    ret,         \* what that call produced
    pieceSet,    \* the last PieceSet constructed on its own
    board,       \* the PieceCentricBoard object
    game,        \* the Game object
    dump         \* the last dump call on the board and what it wrote

vars == <<assertions, aborted, call, ret, pieceSet, board, game, dump>>

-----------------------------------------------------------------------------
(* Bounds of the model *)

\* Longest text handed to AlgebraicPosition.
MaxLen == 3
\* Indeterminate bytes tried for storage that is read uninitialized.
MaxJunk == 2

-----------------------------------------------------------------------------
(* Characters *)

CH_a == 97
CH_h == 104
CH_0 == 48
CH_1 == 49
CH_8 == 56
CH_paren == 41

\* The characters the inputs are drawn from: '`','a'..'h','i', '0'..'9', ')'.
Alphabet == ((CH_a - 1)..(CH_h + 1)) \cup (CH_0..(CH_8 + 1)) \cup {CH_paren}

\* What a read past the end of a string_view may find.
IndeterminateChars == {0, CH_1, CH_8 + 1, CH_a, CH_h + 1}

Pad(n) == [i \in 1..n |-> CH_paren]

\* Every text of length <= 2, and the 2-character texts followed by ')'s.
Texts ==
    {<<>>} \cup {<<c>> : c \in Alphabet}
           \cup {<<f, r>> : f \in Alphabet, r \in Alphabet}
           \cup {<<f, r>> \o Pad(n) : f \in Alphabet, r \in Alphabet, n \in 1..(MaxLen - 2)}

\* std::uint8_t conversion.
ToUint8(n) == n % 256

-----------------------------------------------------------------------------
(* board.h: enums and Position *)

Side == {"kWhite", "kBlack"}
PieceKind == {"kKing", "kQueen", "kRook", "kBishop", "kKnight", "kPawn"}

Position(f, r) == [file |-> f, rank |-> r]

-----------------------------------------------------------------------------
(* notation.cc *)

kWhitePieceToAlgebraic ==
    [p \in PieceKind |->
        CASE p = "kKing"   -> 75   \* 'K'
          [] p = "kQueen"  -> 81   \* 'Q'
          [] p = "kRook"   -> 82   \* 'R'
          [] p = "kBishop" -> 66   \* 'B'
          [] p = "kKnight" -> 75   \* 'K'
          [] p = "kPawn"   -> 80]  \* 'P'

kBlackPieceToAlgebraic ==
    [p \in PieceKind |->
        CASE p = "kKing"   -> 107   \* 'k'
          [] p = "kQueen"  -> 113   \* 'q'
          [] p = "kRook"   -> 114   \* 'r'
          [] p = "kBishop" -> 98    \* 'b'
          [] p = "kKnight" -> 107   \* 'k'
          [] p = "kPawn"   -> 112]  \* 'p'

\* The tables hold `char`: the char16_t code points are converted to 8 bits.
kWhitePieceToFigurine ==
    [p \in PieceKind |->
        CASE p = "kKing"   -> ToUint8(9812)   \* u'\u2654'
          [] p = "kQueen"  -> ToUint8(9813)   \* u'\u2655'
          [] p = "kRook"   -> ToUint8(9814)   \* u'\u2656'
          [] p = "kBishop" -> ToUint8(9815)   \* u'\u2657'
          [] p = "kKnight" -> ToUint8(9816)   \* u'\u2658'
          [] p = "kPawn"   -> ToUint8(9817)]   \* u'\u2659'

kBlackPieceToFigurine ==
    [p \in PieceKind |->
        CASE p = "kKing"   -> ToUint8(9812)   \* u'\u2654'
          [] p = "kQueen"  -> ToUint8(9813)   \* u'\u2655'
          [] p = "kRook"   -> ToUint8(9814)   \* u'\u2656'
          [] p = "kBishop" -> ToUint8(9815)   \* u'\u2657'
          [] p = "kKnight" -> ToUint8(9816)   \* u'\u2658'
          [] p = "kPawn"   -> ToUint8(9817)]   \* u'\u2659'

PieceToAlgebraic(side, kind) ==
    IF side = "kWhite" THEN kWhitePieceToAlgebraic[kind] ELSE kBlackPieceToAlgebraic[kind]

PieceToFigurine(side, kind) ==
    IF side = "kWhite" THEN kWhitePieceToFigurine[kind] ELSE kBlackPieceToFigurine[kind]

\* Outcomes of a call: the process aborted on a failed ABSL_ASSERT, or a value.
Abort(expr) == [kind |-> "abort", failed |-> expr]
Value(v) == [kind |-> "value", value |-> v]

\* FileToNumeric with the upper bound of the assertion forgotten.
FileToNumeric_NoUpperBound(asserts, file) ==
    IF asserts /\ ~(CH_a <= file)
    THEN Abort("'a' <= file && file <= 'h'")
    ELSE Value(ToUint8(file - CH_a))

\* FileToNumeric counting files from 1.
FileToNumeric_FromOne(asserts, file) ==
    IF asserts /\ ~(CH_a <= file /\ file <= CH_h)
    THEN Abort("'a' <= file && file <= 'h'")
    ELSE Value(ToUint8(file - CH_a + 1))

FileToNumeric(asserts, file) ==
    IF asserts /\ ~(CH_a <= file /\ file <= CH_h)
    THEN Abort("'a' <= file && file <= 'h'")
    ELSE Value(ToUint8(file - CH_a))

\* position[i] (0-based in the code, 1-based here); `beyond` is what the
\* storage after the view holds, read when i is past the end.
CharAt(position, i, beyond) ==
    IF i <= Len(position) THEN position[i] ELSE beyond[i]

AlgebraicPosition(asserts, position, beyond) ==
    IF asserts /\ Len(position) # 2
    THEN Abort("position.size() == 2")
    ELSE IF asserts /\ ~(CH_1 <= CharAt(position, 2, beyond)
                         /\ CharAt(position, 2, beyond) <= CH_8)
    THEN Abort("'1' <= position[1] && position[1] <= '8'")
    ELSE LET f == FileToNumeric(asserts, CharAt(position, 1, beyond))
         IN  IF f.kind = "abort"
             THEN f
             ELSE Value(Position(f.value,
                                 ToUint8(CharAt(position, 2, beyond) - CH_0)))

\* The storage after a string literal is its terminating NUL.
AfterLiteral == [i \in 1..2 |-> 0]

\* The storages a read past the end of `position` can find.
Beyond(asserts, position) ==
    IF asserts \/ Len(position) >= 2
    THEN {AfterLiteral}
    ELSE [1..2 -> IndeterminateChars]

-----------------------------------------------------------------------------
(* board.h / board.cc: PieceSet *)

kInitialPawnsCount == 8
kInitialKnightsCount == 8
kInitialBishopsCount == 8
kInitialRooksCount == 8

\* Bytes found in storage that was never written.
IndeterminateBytes == {(k * 129) % 256 : k \in 0..MaxJunk}

\* A Position member that was never assigned; the object's storage is
\* filled with the byte `junk`.
Uninitialized(junk) == Position(junk, junk)

\* The string literal made of file letter number `f` (0 = 'a') and digit `r`.
Literal(f, r) == <<CH_a + f, CH_0 + r>>

\* The literals the constructor parses for White, in evaluation order:
\* "e1", then "a2" .. "g2" and "h2)".
WhiteLiterals ==
    <<Literal(4, 1)>>
      \o [i \in 1..7 |-> Literal(i - 1, 2)]
      \o <<Literal(7, 2) \o <<CH_paren>> >>

\* The outcome of each AlgebraicPosition call of the White branch.
WhiteParsed(asserts) ==
    [i \in 1..Len(WhiteLiterals) |->
        AlgebraicPosition(asserts, WhiteLiterals[i], AfterLiteral)]

\* PieceSet::PieceSet(owner): the default member initializers, then the body.
PieceSetCtor(asserts, owner, junk) ==
    LET parsed == WhiteParsed(asserts)
        failed == {i \in DOMAIN parsed : parsed[i].kind = "abort"}
        first  == CHOOSE i \in failed : \A j \in failed : i <= j
        members ==
            [object            |-> "PieceSet",
             owner_            |-> owner,
             num_pawns_        |-> kInitialPawnsCount,
             num_knights_      |-> kInitialPawnsCount,
             num_bishops_      |-> kInitialPawnsCount,
             num_rooks_        |-> kInitialPawnsCount,
             has_queen_        |-> TRUE,
             king_position_    |-> Uninitialized(junk),
             queen_position_   |-> Uninitialized(junk),
             pawn_positions_   |-> [i \in 1..kInitialPawnsCount |-> Uninitialized(junk)],
             knight_positions_ |-> [i \in 1..kInitialKnightsCount |-> Uninitialized(junk)],
             bishop_positions_ |-> [i \in 1..kInitialBishopsCount |-> Uninitialized(junk)],
             rook_positions_   |-> [i \in 1..kInitialRooksCount |-> Uninitialized(junk)]]
    IN  IF owner = "kWhite"
        THEN IF failed # {}
             THEN parsed[first]
             ELSE Value([members EXCEPT
                            !.king_position_  = parsed[1].value,
                            !.pawn_positions_ =
                                [i \in 1..kInitialPawnsCount |-> parsed[i + 1].value]])
        ELSE Value(members)

-----------------------------------------------------------------------------
(* board.h: PieceCentricBoard, game.h: Game *)

\* PieceCentricBoard() = default: the two default member initializers, in
\* declaration order.
PieceCentricBoardCtor(asserts, junkBlack, junkWhite) ==
    LET black == PieceSetCtor(asserts, "kBlack", junkBlack)
        white == PieceSetCtor(asserts, "kBlack", junkWhite)
    IN  IF black.kind = "abort" THEN black
        ELSE IF white.kind = "abort" THEN white
        ELSE Value([object        |-> "PieceCentricBoard",
                    black_pieces_ |-> black.value,
                    white_pieces_ |-> white.value])

\* Game() = default: the default member initializers; board_ is an empty
\* unique_ptr.
GameCtor ==
    [object                             |-> "Game",
     fullmove_number_                   |-> 0,
     active_player_                     |-> "kWhite",
     white_king_side_castle_available_  |-> FALSE,
     white_queen_side_castle_available_ |-> FALSE,
     black_king_side_castle_available_  |-> FALSE,
     black_queen_side_castle_available_ |-> FALSE,
     halfmove_clock_                    |-> 0,
     board_                             |-> "nullptr"]

-----------------------------------------------------------------------------
(* Dumps of PieceCentricBoard *)

\* Dump(std::ostream&): the body is empty, nothing is written.
Dump_os(b) == <<>>

\* Each no-sink overload wraps std::cout's buffer and calls Dump(os).
Dump_cout(b) == Dump_os(b)
DumpFigurine_cout(b) == Dump_os(b)
DumpFEN_cout(b) == Dump_os(b)

Empty == <<"none", "none">>

\* The kind of the first piece of `ps` found on `pos`, scanning the king, the
\* queen, then the live entries of each array.
KindAt(ps, pos) ==
    IF ps.king_position_ = pos THEN "kKing"
    ELSE IF ps.has_queen_ /\ ps.queen_position_ = pos THEN "kQueen"
    ELSE IF \E i \in 1..ps.num_pawns_ : ps.pawn_positions_[i] = pos THEN "kPawn"
    ELSE IF \E i \in 1..ps.num_knights_ : ps.knight_positions_[i] = pos THEN "kKnight"
    ELSE IF \E i \in 1..ps.num_bishops_ : ps.bishop_positions_[i] = pos THEN "kBishop"
    ELSE IF \E i \in 1..ps.num_rooks_ : ps.rook_positions_[i] = pos THEN "kRook"
    ELSE "none"

\* The first piece found on `pos` scanning White's list, then Black's.
OccupantAt(b, pos) ==
    IF KindAt(b.white_pieces_, pos) # "none"
    THEN <<b.white_pieces_.owner_, KindAt(b.white_pieces_, pos)>>
    ELSE IF KindAt(b.black_pieces_, pos) # "none"
    THEN <<b.black_pieces_.owner_, KindAt(b.black_pieces_, pos)>>
    ELSE Empty

RECURSIVE FigurineRank(_, _, _)
FigurineRank(b, rank, file) ==
    IF file > 7 THEN <<10>>
    ELSE LET o == OccupantAt(b, Position(file, rank))
         IN  <<IF o = Empty THEN 46 ELSE PieceToFigurine(o[1], o[2])>>
               \o FigurineRank(b, rank, file + 1)

RECURSIVE FigurineRanks(_, _)
FigurineRanks(b, rank) ==
    IF rank < 1 THEN <<>> ELSE FigurineRank(b, rank, 0) \o FigurineRanks(b, rank - 1)

\* DumpFigurine(std::ostream&): the 8x8 grid, rank 8 to 1, file a to h.
DumpFigurine_os(b) == FigurineRanks(b, 8)

RECURSIVE FENRank(_, _, _, _)
FENRank(b, rank, file, run) ==
    LET flush == IF run > 0 THEN <<CH_0 + run>> ELSE <<>>
    IN  IF file > 7 THEN flush
        ELSE LET o == OccupantAt(b, Position(file, rank))
             IN  IF o = Empty
                 THEN FENRank(b, rank, file + 1, run + 1)
                 ELSE flush \o <<PieceToAlgebraic(o[1], o[2])>>
                            \o FENRank(b, rank, file + 1, 0)

RECURSIVE FENRanks(_, _)
FENRanks(b, rank) ==
    IF rank < 1 THEN <<>>
    ELSE FENRank(b, rank, 0, 0)
           \o (IF rank > 1 THEN <<47>> ELSE <<>>)
           \o FENRanks(b, rank - 1)

\* DumpFEN(std::ostream&): the FEN board field.
DumpFEN_os(b) == FENRanks(b, 8)

-----------------------------------------------------------------------------
(* State *)

NoCall == [fn |-> "none"]
NoObject == [object |-> "none"]

Init ==
    /\ assertions \in BOOLEAN
    /\ aborted = FALSE
    /\ call = NoCall
    /\ ret = NoCall
    /\ pieceSet = NoObject
    /\ board = NoObject
    /\ game = NoObject
    /\ dump = NoCall

\* A failed assertion ends the process.
Returned(outcome) == aborted' = (outcome.kind = "abort")

-----------------------------------------------------------------------------
(* Notation calls *)

CallFileToNumeric(file) ==
    /\ ~aborted
    /\ call' = [fn |-> "FileToNumeric", arg |-> file]
    /\ ret' = FileToNumeric(assertions, file)
    /\ Returned(ret')
    /\ UNCHANGED <<assertions, pieceSet, board, game, dump>>

CallAlgebraicPosition(position) ==
    /\ ~aborted
    /\ \E beyond \in Beyond(assertions, position) :
          ret' = AlgebraicPosition(assertions, position, beyond)
    /\ call' = [fn |-> "AlgebraicPosition", arg |-> position]
    /\ Returned(ret')
    /\ UNCHANGED <<assertions, pieceSet, board, game, dump>>

LookupAlgebraic(side, kind) ==
    /\ ~aborted
    /\ call' = [fn |-> "PieceToAlgebraic", arg |-> <<side, kind>>]
    /\ ret' = Value(PieceToAlgebraic(side, kind))
    /\ UNCHANGED <<assertions, aborted, pieceSet, board, game, dump>>

LookupFigurine(side, kind) ==
    /\ ~aborted
    /\ call' = [fn |-> "PieceToFigurine", arg |-> <<side, kind>>]
    /\ ret' = Value(PieceToFigurine(side, kind))
    /\ UNCHANGED <<assertions, aborted, pieceSet, board, game, dump>>

NextNotation ==
    \/ \E file \in Alphabet : CallFileToNumeric(file)
    \/ \E position \in Texts : CallAlgebraicPosition(position)
    \/ \E side \in Side, kind \in PieceKind : LookupAlgebraic(side, kind)
    \/ \E side \in Side, kind \in PieceKind : LookupFigurine(side, kind)

SpecNotation == Init /\ [][NextNotation]_vars

-----------------------------------------------------------------------------
(* Construction and dumps *)

ConstructPieceSet(owner) ==
    /\ ~aborted
    /\ \E junk \in IndeterminateBytes :
          LET made == PieceSetCtor(assertions, owner, junk)
          IN  /\ call' = [fn |-> "PieceSet::PieceSet", arg |-> owner]
              /\ ret' = IF made.kind = "abort" THEN made ELSE [kind |-> "constructed"]
              /\ pieceSet' = IF made.kind = "abort" THEN pieceSet ELSE made.value
              /\ Returned(made)
    /\ UNCHANGED <<assertions, board, game, dump>>

ConstructBoard ==
    /\ ~aborted
    /\ \E junkBlack \in IndeterminateBytes, junkWhite \in IndeterminateBytes :
          LET made == PieceCentricBoardCtor(assertions, junkBlack, junkWhite)
          IN  /\ call' = [fn |-> "PieceCentricBoard::PieceCentricBoard", arg |-> <<>>]
              /\ ret' = IF made.kind = "abort" THEN made ELSE [kind |-> "constructed"]
              /\ board' = IF made.kind = "abort" THEN board ELSE made.value
              /\ Returned(made)
    /\ UNCHANGED <<assertions, pieceSet, game, dump>>

ConstructGame ==
    /\ ~aborted
    /\ call' = [fn |-> "Game::Game", arg |-> <<>>]
    /\ ret' = [kind |-> "constructed"]
    /\ game' = GameCtor
    /\ UNCHANGED <<assertions, aborted, pieceSet, board, dump>>

\* A dump needs a board; nothing but the sink changes.
CanDump == ~aborted /\ board # NoObject
DumpFrame == UNCHANGED <<assertions, aborted, call, ret, pieceSet, board, game>>

CallDump_os ==
    /\ CanDump
    /\ dump' = [fn |-> "Dump(os)", sink |-> "os", text |-> Dump_os(board)]
    /\ DumpFrame

CallDump ==
    /\ CanDump
    /\ dump' = [fn |-> "Dump()", sink |-> "cout", text |-> Dump_cout(board)]
    /\ DumpFrame

CallDumpFigurine_os ==
    /\ CanDump
    /\ dump' = [fn |-> "DumpFigurine(os)", sink |-> "os", text |-> DumpFigurine_os(board)]
    /\ DumpFrame

CallDumpFigurine ==
    /\ CanDump
    /\ dump' = [fn |-> "DumpFigurine()", sink |-> "cout", text |-> DumpFigurine_cout(board)]
    /\ DumpFrame

CallDumpFEN_os ==
    /\ CanDump
    /\ dump' = [fn |-> "DumpFEN(os)", sink |-> "os", text |-> DumpFEN_os(board)]
    /\ DumpFrame

CallDumpFEN ==
    /\ CanDump
    /\ dump' = [fn |-> "DumpFEN()", sink |-> "cout", text |-> DumpFEN_cout(board)]
    /\ DumpFrame

Next ==
    \/ \E owner \in Side : ConstructPieceSet(owner)
    \/ ConstructBoard
    \/ ConstructGame
    \/ CallDump_os
    \/ CallDump
    \/ CallDumpFigurine_os
    \/ CallDumpFigurine
    \/ CallDumpFEN_os
    \/ CallDumpFEN

Spec == Init /\ [][Next]_vars

-----------------------------------------------------------------------------
(* Properties *)

ValidTexts == {<<f, r>> : f \in CH_a..CH_h, r \in CH_1..CH_8}

Malformed(t) ==
    \/ Len(t) # 2
    \/ t[1] \notin CH_a..CH_h
    \/ t[2] \notin CH_1..CH_8

\* The standard starting layout of a side, as live <<kind, position>> pairs.
BackRank(owner) == IF owner = "kWhite" THEN 1 ELSE 8
PawnRank(owner) == IF owner = "kWhite" THEN 2 ELSE 7
StandardLayout(owner) ==
    {<<"kKing", Position(4, BackRank(owner))>>, <<"kQueen", Position(3, BackRank(owner))>>}
      \cup {<<"kPawn", Position(f, PawnRank(owner))>> : f \in 0..7}
      \cup {<<"kRook", Position(f, BackRank(owner))>> : f \in {0, 7}}
      \cup {<<"kKnight", Position(f, BackRank(owner))>> : f \in {1, 6}}
      \cup {<<"kBishop", Position(f, BackRank(owner))>> : f \in {2, 5}}

\* The live pieces of a PieceSet, as <<kind, position>> pairs.
LivePieces(ps) ==
    {<<"kKing", ps.king_position_>>}
      \cup (IF ps.has_queen_ THEN {<<"kQueen", ps.queen_position_>>} ELSE {})
      \cup {<<"kPawn", ps.pawn_positions_[i]>> : i \in 1..ps.num_pawns_}
      \cup {<<"kKnight", ps.knight_positions_[i]>> : i \in 1..ps.num_knights_}
      \cup {<<"kBishop", ps.bishop_positions_[i]>> : i \in 1..ps.num_bishops_}
      \cup {<<"kRook", ps.rook_positions_[i]>> : i \in 1..ps.num_rooks_}

TotalPieces(ps) ==
    1 + (IF ps.has_queen_ THEN 1 ELSE 0)
      + ps.num_pawns_ + ps.num_knights_ + ps.num_bishops_ + ps.num_rooks_

\* The PieceSet objects alive in the state.
PieceSets ==
    (IF pieceSet = NoObject THEN {} ELSE {pieceSet})
      \cup (IF board = NoObject THEN {} ELSE {board.black_pieces_, board.white_pieces_})

\* C1: a default-constructed Game is the standard starting position: it owns
\* a board, White is to move, the four castling flags are available,
\* halfmove_clock is 0 and fullmove_number is 1.
C1_GameIsStartingPosition ==
    game # NoObject =>
        /\ game.board_ # "nullptr"
        /\ game.active_player_ = "kWhite"
        /\ game.white_king_side_castle_available_
        /\ game.white_queen_side_castle_available_
        /\ game.black_king_side_castle_available_
        /\ game.black_queen_side_castle_available_
        /\ game.halfmove_clock_ = 0
        /\ game.fullmove_number_ = 1

\* C2: for a text of a file in 'a'..'h' followed by a rank in '1'..'8',
\* AlgebraicPosition returns file = f - 'a' and rank = the digit of r, in
\* 0..7 and 1..8, no other valid text gives the same Position, and
\* FileToNumeric maps 'a'..'h' to 0..7.
C2_ValidSquareParses ==
    /\ (call.fn = "AlgebraicPosition" /\ call.arg \in ValidTexts) =>
          /\ ret = Value(Position(call.arg[1] - CH_a, call.arg[2] - CH_0))
          /\ ret.value.file \in 0..7
          /\ ret.value.rank \in 1..8
          /\ \A t \in ValidTexts \ {call.arg} :
                AlgebraicPosition(assertions, t, AfterLiteral) # ret
    /\ (call.fn = "FileToNumeric" /\ call.arg \in CH_a..CH_h) =>
          /\ ret = Value(call.arg - CH_a)
          /\ ret.value \in 0..7

C2_Witness ==
    /\ call.fn = "AlgebraicPosition"
    /\ call.arg = <<CH_h, CH_8>>
    /\ ret = Value(Position(7, 8))

C4_PieceSetIsStandardLayout ==
    call.fn = "PieceSet::PieceSet" =>
        /\ ret.kind = "constructed"
        /\ pieceSet.owner_ = call.arg
        /\ LivePieces(pieceSet) = StandardLayout(call.arg)

\* C5: every PieceSet has at most 16 live pieces.
C5_AtMostSixteenPieces ==
    \A ps \in PieceSets : TotalPieces(ps) <= 16

\* C6: each no-sink dump writes exactly what its own sink overload writes.
C6_NoSinkDumpIsWrapper ==
    /\ dump.fn = "Dump()" => dump.text = Dump_os(board)
    /\ dump.fn = "DumpFigurine()" => dump.text = DumpFigurine_os(board)
    /\ dump.fn = "DumpFEN()" => dump.text = DumpFEN_os(board)

\* C7: the board's white_pieces_ is owned by White and its black_pieces_ by
\* Black.
C7_OnePieceSetPerSide ==
    board # NoObject =>
        /\ board.white_pieces_.owner_ = "kWhite"
        /\ board.black_pieces_.owner_ = "kBlack"

\* C8: a looked-up algebraic letter is uppercase for White and lowercase for
\* Black, and no other (side, kind) has the same letter.
C8_AlgebraicLettersDistinct ==
    call.fn = "PieceToAlgebraic" =>
        /\ call.arg[1] = "kWhite" => ret.value \in 65..90
        /\ call.arg[1] = "kBlack" => ret.value \in 97..122
        /\ \A side \in Side, kind \in PieceKind :
              PieceToAlgebraic(side, kind) = ret.value => <<side, kind>> = call.arg

\* C9: the figurine symbol of a kind differs between White and Black.
C9_FigurinesDifferBySide ==
    call.fn = "PieceToFigurine" =>
        \A side \in Side \ {call.arg[1]} :
            PieceToFigurine(side, call.arg[2]) # ret.value

\* C10: constructing PieceSet(kWhite) violates no assertion, every text it
\* parses is a valid square, and the stored pawns are a2 .. h2.
C10_WhitePieceSetConstructs ==
    (call.fn = "PieceSet::PieceSet" /\ call.arg = "kWhite") =>
        /\ ret.kind = "constructed"
        /\ ~aborted
        /\ \A i \in DOMAIN WhiteLiterals : ~Malformed(WhiteLiterals[i])
        /\ pieceSet.pawn_positions_ = [i \in 1..8 |-> Position(i - 1, 2)]

====
